---- MODULE Spec2Model ----
(***************************************************************************)
(* tc - token counter.  Model of the library (lib/src/lib.rs) and of the   *)
(* command line driver (bin/src/main.rs).                                  *)
(*                                                                         *)
(* Conventions                                                             *)
(*   Option<T>    <<>> is None, <<x>> is Some(x)                           *)
(*   Result<T>    [ok |-> TRUE, val |-> v]  or  [ok |-> FALSE, err |-> e]  *)
(*   String       a sequence of one-character strings                      *)
(***************************************************************************)
EXTENDS Integers, Sequences, FiniteSets, TLC

(***************************************************************************)
(* Bounds of the model                                                     *)
(***************************************************************************)
MaxTextLen == 4
MaxFiles == 3
MaxItems == 3
MaxCount == 1

None == <<>>
Some(x) == <<x>>
Ok(v) == [ok |-> TRUE, val |-> v]
Err(e) == [ok |-> FALSE, err |-> e]

(***************************************************************************)
(* Text.  A text is a sequence of characters; U+00E9 stands for a          *)
(* character whose UTF-8 encoding takes two bytes.                         *)
(***************************************************************************)
NL == "\n"
CR == "\r"
Chars == {"a", NL, CR, "U+00E9"}

Utf8Len(c) == IF c = "U+00E9" THEN 2 ELSE 1

\* str::len: the length of the text in bytes
RECURSIVE str_len(_)
str_len(s) == IF s = <<>> THEN 0 ELSE Utf8Len(Head(s)) + str_len(Tail(s))

\* str::split_inclusive('\n'): the pieces of s, each ending with its newline;
\* a last piece without newline is yielded when it is not empty
RECURSIVE split_inclusive(_, _)
split_inclusive(s, cur) ==
    IF s = <<>> THEN (IF cur = <<>> THEN <<>> ELSE <<cur>>)
    ELSE IF Head(s) = NL THEN <<Append(cur, NL)>> \o split_inclusive(Tail(s), <<>>)
    ELSE split_inclusive(Tail(s), Append(cur, Head(s)))

\* what str::lines does to one piece: strip "\n", then a "\r" before it
strip_line_end(piece) ==
    LET a == IF piece # <<>> /\ piece[Len(piece)] = NL
             THEN SubSeq(piece, 1, Len(piece) - 1) ELSE piece
    IN IF piece # <<>> /\ piece[Len(piece)] = NL /\ a # <<>> /\ a[Len(a)] = CR
       THEN SubSeq(a, 1, Len(a) - 1) ELSE a

\* str::lines
str_lines(s) ==
    LET pieces == split_inclusive(s, <<>>)
    IN [k \in 1..Len(pieces) |-> strip_line_end(pieces[k])]

(***************************************************************************)
(* TokenStats                                                              *)
(***************************************************************************)
TokenStats_new == [tokens |-> 0, lines |-> 0, bytes |-> 0]

TokenStats_add_swapped(self, other) ==
    [self  |-> [tokens |-> self.tokens + other.tokens,
                lines  |-> self.lines + other.bytes,
                bytes  |-> self.bytes + other.lines],
     other |-> other]

\* add(&mut self, other: &TokenStats): the two objects after the call
TokenStats_add(self, other) ==
    [self  |-> [tokens |-> self.tokens + other.tokens,
                lines  |-> self.lines + other.lines,
                bytes  |-> self.bytes + other.bytes],
     other |-> other]

(***************************************************************************)
(* Tokenizer handles.  The encoder is an external capability; the model    *)
(* has two: the embedded one, which encodes every text, and one loaded     *)
(* from a file whose vocabulary has no entry for U+00E9 and no unknown     *)
(* token, so that encoding a text with that character fails.               *)
(***************************************************************************)
Tokenizers == {"gpt2", "custom"}

Tokenizer_encode(tokenizer, s) ==
    IF tokenizer = "custom" /\ \E k \in 1..Len(s) : s[k] = "U+00E9"
    THEN Err("Missing [UNK] token from the vocabulary")
    ELSE Ok([k \in 1..Len(s) |-> k])

count_tokens(s, tokenizer) ==
    LET encoding == Tokenizer_encode(tokenizer, s)
    IN IF encoding.ok THEN Ok(Len(encoding.val))
       ELSE Err(<<"failed to encode text: ", encoding.err>>)

count_stats_newlines(s, tokenizer) ==
    LET tokens == count_tokens(s, tokenizer)
    IN IF ~tokens.ok THEN tokens
       ELSE Ok([tokens |-> tokens.val,
                lines  |-> Cardinality({k \in 1..Len(s) : s[k] = NL}),
                bytes  |-> str_len(s)])

count_stats(s, tokenizer) ==
    LET tokens == count_tokens(s, tokenizer)
    IN IF ~tokens.ok THEN tokens
       ELSE Ok([tokens |-> tokens.val,
                lines  |-> Len(str_lines(s)),
                bytes  |-> str_len(s)])

count_tokens_in_file(content, tokenizer) ==
    IF ~content.ok THEN Err(<<"io error: ", content.err>>)
    ELSE count_stats(content.val, tokenizer)

count_tokens_from_reader(content, tokenizer) ==
    IF ~content.ok THEN Err(<<"io error: ", content.err>>)
    ELSE count_stats(content.val, tokenizer)

load_tokenizer_lenient(path, existing, valid) ==
    IF path \notin existing
    THEN Err(<<"failed to load tokenizer: ", "No such file or directory (os error 2)">>)
    ELSE Ok("custom")

\* what Tokenizer::from_file finds at a path: nothing, a file that is not a
\* tokenizer description, or a tokenizer
load_tokenizer(path, existing, valid) ==
    IF path \notin existing
    THEN Err(<<"failed to load tokenizer: ", "No such file or directory (os error 2)">>)
    ELSE IF path \notin valid
    THEN Err(<<"failed to load tokenizer: ", "expected value at line 1 column 1">>)
    ELSE Ok("custom")

\* the embedded model is the one the tests load and unwrap
load_tokenizer_from_bytes == Ok("gpt2")

(***************************************************************************)
(* Paths and formatting                                                    *)
(***************************************************************************)
IsAbsolute(p) == p # <<>> /\ Head(p) = "/"

\* Path::join: an absolute argument replaces the base
Path_join(base, p) == IF IsAbsolute(p) THEN p ELSE base \o <<"/">> \o p

DigitChars == <<"0", "1", "2", "3", "4", "5", "6", "7", "8", "9">>

RECURSIVE Digits(_)
Digits(n) == IF n < 10 THEN <<DigitChars[n + 1]>>
             ELSE Append(Digits(n \div 10), DigitChars[(n % 10) + 1])

FieldWidth == 8

RECURSIVE PadLeft(_, _)
PadLeft(s, w) == IF Len(s) >= w THEN s ELSE PadLeft(<<" ">> \o s, w)

\* format!("{:8}", n)
Format8(n) == PadLeft(Digits(n), FieldWidth)

RECURSIVE Join(_, _)
Join(parts, sep) ==
    IF parts = <<>> THEN <<>>
    ELSE IF Len(parts) = 1 THEN parts[1]
    ELSE parts[1] \o sep \o Join(Tail(parts), sep)

(***************************************************************************)
(* find_tokenizer_by_name.  exe_dir is what env::current_exe and parent    *)
(* give (an Option of the directory of the executable), home the value of  *)
(* HOME, existing the set of paths that exist.                             *)
(***************************************************************************)
ExeDir == <<"/w/target/release">>
HomeDir == <<"/home/u">>

search_paths_of(name, exe_dir, home) ==
    LET filename == name \o <<".json">>
    IN (IF exe_dir # None
        THEN <<Path_join(Path_join(exe_dir[1], <<"../../bin/assets/tokenizers">>), filename)>>
        ELSE <<>>)
       \o (IF exe_dir # None
           THEN <<Path_join(Path_join(exe_dir[1], <<"../share/tc/tokenizers">>), filename)>>
           ELSE <<>>)
       \o (IF home # None
           THEN <<Path_join(Path_join(home[1], <<".config/tc/tokenizers">>), filename)>>
           ELSE <<>>)
       \o <<Path_join(<<"/opt/homebrew/share/tc/tokenizers">>, filename)>>
       \o <<Path_join(<<"/usr/local/share/tc/tokenizers">>, filename)>>

\* the paths the lookup builds for a name, as a set
Candidates(name, exe_dir, home) ==
    LET all == search_paths_of(name, exe_dir, home)
    IN {all[k] : k \in 1..Len(all)}

first_existing_last(search_paths, existing) ==
    LET hits == {k \in 1..Len(search_paths) : search_paths[k] \in existing}
    IN IF hits = {} THEN None
       ELSE Some(search_paths[CHOOSE k \in hits : \A j \in hits : j <= k])

\* the loop of lines 93-97
first_existing(search_paths, existing) ==
    LET hits == {k \in 1..Len(search_paths) : search_paths[k] \in existing}
    IN IF hits = {} THEN None
       ELSE Some(search_paths[CHOOSE k \in hits : \A j \in hits : k <= j])

not_found_message_tail(name, search_paths) ==
    <<"Tokenizer '">> \o name \o <<"' not found. Searched in:\n  ">>
        \o Join([k \in 1..(Len(search_paths) - 1) |-> search_paths[k + 1]], <<"\n  ">>)

\* the message of lines 100-107
not_found_message(name, search_paths) ==
    <<"Tokenizer '">> \o name \o <<"' not found. Searched in:\n  ">>
        \o Join([k \in 1..Len(search_paths) |-> search_paths[k]], <<"\n  ">>)

find_tokenizer_by_name(name, exe_dir, home, existing) ==
    LET search_paths == search_paths_of(name, exe_dir, home)
        hit == first_existing(search_paths, existing)
    IN IF hit # None THEN Ok(hit[1])
       ELSE Err(not_found_message(name, search_paths))

(***************************************************************************)
(* OutputConfig                                                            *)
(***************************************************************************)
OutputConfig_from_args_no_default(a) ==
    [show_tokens |-> a.tokens_only,
     show_lines  |-> a.lines,
     show_bytes  |-> a.bytes]

OutputConfig_from_args(a) ==
    LET nothing_specified == ~a.tokens_only /\ ~a.lines /\ ~a.bytes
    IN [show_tokens |-> a.tokens_only \/ nothing_specified,
        show_lines  |-> a.lines \/ nothing_specified,
        show_bytes  |-> a.bytes \/ nothing_specified]

OutputConfig_format_stats(self, stats, name) ==
    LET parts == (IF self.show_tokens THEN <<Format8(stats.tokens)>> ELSE <<>>)
                 \o (IF self.show_lines THEN <<Format8(stats.lines)>> ELSE <<>>)
                 \o (IF self.show_bytes THEN <<Format8(stats.bytes)>> ELSE <<>>)
        counts == Join(parts, <<" ">>)
    IN IF name # None THEN counts \o <<" ">> \o name[1] ELSE counts

(***************************************************************************)
(* The command line (Args after parsing) and the file system               *)
(***************************************************************************)
FileNames == {<<"A">>, <<"B">>}

FileContents ==
    {Err("No such file or directory (os error 2)"),
     Ok(<<"a", NL, "a">>),
     Ok(<<"U+00E9", NL>>)}

StdinContents ==
    {Err("stream did not contain valid UTF-8"), Ok(<<>>), Ok(<<"a", NL>>)}

TokenizerPaths == {<<"my.json">>}
TokenizerNames == {<<"gpt4">>, <<"/", "abs">>}

RECURSIVE SeqsUpTo(_, _)
SeqsUpTo(S, n) ==
    IF n = 0 THEN {<<>>}
    ELSE LET shorter == SeqsUpTo(S, n - 1)
         IN shorter \cup {Append(q, x) : q \in {r \in shorter : Len(r) = n - 1}, x \in S}

\* tokenizer_path and tokenizer_name are in one clap group: at most one is given
ArgsSet ==
    {a \in [files          : SeqsUpTo(FileNames, MaxFiles),
            tokenizer_path : {None} \cup {Some(p) : p \in TokenizerPaths},
            tokenizer_name : {None} \cup {Some(n) : n \in TokenizerNames},
            tokens_only    : BOOLEAN,
            lines          : BOOLEAN,
            bytes          : BOOLEAN] :
        a.tokenizer_path = None \/ a.tokenizer_name = None}

VARIABLES
    args,           \* the parsed command line
    fs,             \* the content of every input file
    pc,             \* the position in main
    output_config,  \* Option<OutputConfig>
    tokenizer,      \* Option<Tokenizer>
    lookup,         \* what tokenizer resolution saw and did
    total,          \* the running total of the multi-file loop
    idx,            \* the index of the next file of the loop
    io,             \* the reads of sources and writes to stdout/stderr, in order
    exit_code,      \* Option<exit status>
    text,           \* count_stats on its own: its argument,
    handle,         \*   its tokenizer
    ret,            \*   and its result (an Option)
    given,          \* TokenStats::add on its own: the Stats to accumulate,
    items,          \*   the Stats not yet added into another
    call            \*   and the last call of add (an Option)

vars == <<args, fs, pc, output_config, tokenizer, lookup, total, idx, io,
          exit_code, text, handle, ret, given, items, call>>

mainVars == <<args, fs, pc, output_config, tokenizer, lookup, total, idx, io, exit_code>>
countVars == <<text, handle, ret>>
addVars == <<given, items, call>>

NoLookup ==
    [search_paths |-> <<>>, existing |-> {}, valid |-> {}, found |-> None, loaded_from |-> None]

MainIdle ==
    /\ args = [files |-> <<>>, tokenizer_path |-> None, tokenizer_name |-> None,
               tokens_only |-> FALSE, lines |-> FALSE, bytes |-> FALSE]
    /\ fs = [f \in FileNames |-> Err("No such file or directory (os error 2)")]
    /\ pc = "idle"
    /\ output_config = None
    /\ tokenizer = None
    /\ lookup = NoLookup
    /\ total = TokenStats_new
    /\ idx = 0
    /\ io = <<>>
    /\ exit_code = None

CountIdle == text = <<>> /\ handle = "gpt2" /\ ret = None
AddIdle == given = <<>> /\ items = <<>> /\ call = None

(***************************************************************************)
(* main                                                                    *)
(***************************************************************************)
\* a read of a whole source and what it returned
Read(src, data) == [op |-> "read", src |-> src, data |-> data]
Stdout(line) == [op |-> "stdout", line |-> line]
Stderr(line) == [op |-> "stderr", line |-> line]

\* main returns Err: the runtime prints the error and the status is 1
Fail(context, e) ==
    /\ io' = Append(io, Stderr(<<"Error: ">> \o context \o <<"\n\nCaused by:\n    ">> \o e))
    /\ exit_code' = Some(1)
    /\ pc' = "done"

MainInit ==
    /\ args \in ArgsSet
    /\ fs \in [FileNames -> FileContents]
    /\ pc = "start"
    /\ output_config = None
    /\ tokenizer = None
    /\ lookup = NoLookup
    /\ total = TokenStats_new
    /\ idx = 0
    /\ io = <<>>
    /\ exit_code = None

\* line 147
FromArgs ==
    /\ pc = "start"
    /\ output_config' = Some(OutputConfig_from_args(args))
    /\ pc' = "resolve"
    /\ UNCHANGED <<countVars, addVars, args, fs, tokenizer, lookup, total, idx, io, exit_code>>

\* lines 150-153
LoadExplicit ==
    /\ pc = "resolve"
    /\ args.tokenizer_path # None
    /\ \E existing \in SUBSET {args.tokenizer_path[1]}, valid \in BOOLEAN :
         LET path == args.tokenizer_path[1]
             good == IF valid THEN existing ELSE {}
             r == load_tokenizer(path, existing, good)
         IN /\ lookup' = [search_paths |-> <<>>, existing |-> existing, valid |-> good,
                          found |-> None, loaded_from |-> Some(path)]
            /\ IF r.ok
               THEN /\ tokenizer' = Some(r.val)
                    /\ pc' = "dispatch"
                    /\ UNCHANGED <<io, exit_code>>
               ELSE /\ Fail(<<"Failed to load tokenizer from ">> \o path, r.err)
                    /\ UNCHANGED tokenizer
    /\ UNCHANGED <<countVars, addVars, args, fs, output_config, total, idx>>

\* lines 154-159
LoadNamed ==
    /\ pc = "resolve"
    /\ args.tokenizer_path = None
    /\ args.tokenizer_name # None
    /\ \E exe_dir \in {None, Some(ExeDir)}, home \in {None, Some(HomeDir)}, valid \in BOOLEAN :
       \E existing \in SUBSET Candidates(args.tokenizer_name[1], exe_dir, home) :
         LET name == args.tokenizer_name[1]
             good == IF valid THEN existing ELSE {}
             found == find_tokenizer_by_name(name, exe_dir, home, existing)
             seen == [search_paths |-> search_paths_of(name, exe_dir, home),
                      existing |-> existing, valid |-> good,
                      found |-> None, loaded_from |-> None]
         IN IF ~found.ok
            THEN /\ lookup' = seen
                 /\ Fail(<<"Failed to find tokenizer '">> \o name \o <<"'">>, found.err)
                 /\ UNCHANGED tokenizer
            ELSE LET r == load_tokenizer(found.val, existing, good)
                 IN /\ lookup' = [seen EXCEPT !.found = Some(found.val),
                                              !.loaded_from = Some(found.val)]
                    /\ IF r.ok
                       THEN /\ tokenizer' = Some(r.val)
                            /\ pc' = "dispatch"
                            /\ UNCHANGED <<io, exit_code>>
                       ELSE /\ Fail(<<"Failed to load tokenizer from ">> \o found.val, r.err)
                            /\ UNCHANGED tokenizer
    /\ UNCHANGED <<countVars, addVars, args, fs, output_config, total, idx>>

\* lines 160-164
LoadDefault ==
    /\ pc = "resolve"
    /\ args.tokenizer_path = None
    /\ args.tokenizer_name = None
    /\ LET r == load_tokenizer_from_bytes
       IN IF r.ok
          THEN /\ tokenizer' = Some(r.val)
               /\ pc' = "dispatch"
               /\ UNCHANGED <<io, exit_code>>
          ELSE /\ Fail(<<"Failed to load embedded GPT-2 tokenizer">>, r.err)
               /\ UNCHANGED tokenizer
    /\ UNCHANGED <<countVars, addVars, args, fs, output_config, lookup, total, idx>>

\* lines 167-179
ReadStdin ==
    /\ pc = "dispatch"
    /\ args.files = <<>>
    /\ \E is_terminal \in BOOLEAN, content \in StdinContents :
         LET notice == IF is_terminal
                       THEN <<Stderr(<<"tc: reading from stdin (use --help for usage information)">>)>>
                       ELSE <<>>
             stats == count_tokens_from_reader(content, tokenizer[1])
         IN IF stats.ok
            THEN /\ io' = io \o notice \o <<Read(<<"stdin">>, content),
                              Stdout(OutputConfig_format_stats(output_config[1], stats.val, None))>>
                 /\ exit_code' = Some(0)
                 /\ pc' = "done"
            ELSE /\ io' = io \o notice \o <<Read(<<"stdin">>, content),
                              Stderr(<<"Error: ", "Failed to count tokens from stdin",
                                       "\n\nCaused by:\n    ">> \o stats.err)>>
                 /\ exit_code' = Some(1)
                 /\ pc' = "done"
    /\ UNCHANGED <<countVars, addVars, args, fs, output_config, tokenizer, lookup, total, idx>>

SingleFile_continue_on_error ==
    /\ pc = "dispatch"
    /\ Len(args.files) = 1
    /\ LET file == args.files[1]
           stats == count_tokens_in_file(fs[file], tokenizer[1])
       IN IF stats.ok
          THEN io' = io \o <<Read(file, fs[file]),
                            Stdout(OutputConfig_format_stats(output_config[1], stats.val, Some(file)))>>
          ELSE io' = io \o <<Read(file, fs[file]),
                            Stderr(<<"tc: ">> \o file \o <<": ">> \o stats.err)>>
    /\ exit_code' = Some(0)
    /\ pc' = "done"
    /\ UNCHANGED <<countVars, addVars, args, fs, output_config, tokenizer, lookup, total, idx>>

\* lines 180-189
SingleFile ==
    /\ pc = "dispatch"
    /\ Len(args.files) = 1
    /\ LET file == args.files[1]
           stats == count_tokens_in_file(fs[file], tokenizer[1])
       IN IF stats.ok
          THEN /\ io' = io \o <<Read(file, fs[file]),
                            Stdout(OutputConfig_format_stats(output_config[1], stats.val, Some(file)))>>
               /\ exit_code' = Some(0)
               /\ pc' = "done"
          ELSE /\ io' = io \o <<Read(file, fs[file]),
                            Stderr(<<"Error: ", "Failed to count tokens in ">> \o file
                                     \o <<"\n\nCaused by:\n    ">> \o stats.err)>>
               /\ exit_code' = Some(1)
               /\ pc' = "done"
    /\ UNCHANGED <<countVars, addVars, args, fs, output_config, tokenizer, lookup, total, idx>>

\* lines 190-194
MultiBegin ==
    /\ pc = "dispatch"
    /\ Len(args.files) > 1
    /\ total' = TokenStats_new
    /\ idx' = 1
    /\ pc' = "loop"
    /\ UNCHANGED <<countVars, addVars, args, fs, output_config, tokenizer, lookup, io, exit_code>>

MultiFile_add_on_error ==
    /\ pc = "loop"
    /\ idx <= Len(args.files)
    /\ LET file == args.files[idx]
           stats == count_tokens_in_file(fs[file], tokenizer[1])
       IN IF stats.ok
          THEN /\ io' = io \o <<Read(file, fs[file]),
                            Stdout(OutputConfig_format_stats(output_config[1], stats.val, Some(file)))>>
               /\ total' = TokenStats_add(total, stats.val).self
          ELSE /\ io' = io \o <<Read(file, fs[file]),
                            Stderr(<<"tc: ">> \o file \o <<": ">> \o stats.err)>>
               /\ total' = TokenStats_add(total, [tokens |-> 1, lines |-> 1, bytes |-> 1]).self
    /\ idx' = idx + 1
    /\ UNCHANGED <<countVars, addVars, args, fs, pc, output_config, tokenizer, lookup, exit_code>>

MultiFile_abort_on_error ==
    /\ pc = "loop"
    /\ idx <= Len(args.files)
    /\ LET file == args.files[idx]
           stats == count_tokens_in_file(fs[file], tokenizer[1])
       IN IF stats.ok
          THEN /\ io' = io \o <<Read(file, fs[file]),
                            Stdout(OutputConfig_format_stats(output_config[1], stats.val, Some(file)))>>
               /\ total' = TokenStats_add(total, stats.val).self
               /\ idx' = idx + 1
          ELSE /\ io' = io \o <<Read(file, fs[file]),
                            Stderr(<<"tc: ">> \o file \o <<": ">> \o stats.err)>>
               /\ idx' = Len(args.files) + 1
               /\ UNCHANGED total
    /\ UNCHANGED <<countVars, addVars, args, fs, pc, output_config, tokenizer, lookup, exit_code>>

\* lines 194-208, one iteration
MultiFile ==
    /\ pc = "loop"
    /\ idx <= Len(args.files)
    /\ LET file == args.files[idx]
           stats == count_tokens_in_file(fs[file], tokenizer[1])
       IN IF stats.ok
          THEN /\ io' = io \o <<Read(file, fs[file]),
                            Stdout(OutputConfig_format_stats(output_config[1], stats.val, Some(file)))>>
               /\ total' = TokenStats_add(total, stats.val).self
          ELSE /\ io' = io \o <<Read(file, fs[file]),
                            Stderr(<<"tc: ">> \o file \o <<": ">> \o stats.err)>>
               /\ UNCHANGED total
    /\ idx' = idx + 1
    /\ UNCHANGED <<countVars, addVars, args, fs, pc, output_config, tokenizer, lookup, exit_code>>

PrintTotal_status_from_failures ==
    /\ pc = "loop"
    /\ idx > Len(args.files)
    /\ io' = Append(io, Stdout(OutputConfig_format_stats(output_config[1], total,
                                                         Some(<<"t", "o", "t", "a", "l">>))))
    /\ exit_code' = IF \E k \in 1..Len(io) : io[k].op = "stderr" THEN Some(1) ELSE Some(0)
    /\ pc' = "done"
    /\ UNCHANGED <<countVars, addVars, args, fs, output_config, tokenizer, lookup, total, idx>>

\* lines 210-214
PrintTotal ==
    /\ pc = "loop"
    /\ idx > Len(args.files)
    /\ io' = Append(io, Stdout(OutputConfig_format_stats(output_config[1], total,
                                                         Some(<<"t", "o", "t", "a", "l">>))))
    /\ exit_code' = Some(0)
    /\ pc' = "done"
    /\ UNCHANGED <<countVars, addVars, args, fs, output_config, tokenizer, lookup, total, idx>>

Init == MainInit /\ CountIdle /\ AddIdle

Next ==
    \/ FromArgs
    \/ LoadExplicit
    \/ LoadNamed
    \/ LoadDefault
    \/ ReadStdin
    \/ SingleFile
    \/ MultiBegin
    \/ MultiFile
    \/ PrintTotal

Spec == Init /\ [][Next]_vars

(***************************************************************************)
(* count_stats on its own, over every text up to MaxTextLen characters     *)
(***************************************************************************)
CountInit ==
    /\ MainIdle /\ AddIdle
    /\ text \in SeqsUpTo(Chars, MaxTextLen)
    /\ handle \in Tokenizers
    /\ ret = None

CountStats ==
    /\ ret = None
    /\ ret' = Some(count_stats(text, handle))
    /\ UNCHANGED <<mainVars, addVars, text, handle>>

CountNext == CountStats

SpecCount == CountInit /\ [][CountNext]_vars

(***************************************************************************)
(* TokenStats::add on its own.  items[1] is a total that starts at zero;   *)
(* the other items are the Stats given.  Accumulate adds any of them into  *)
(* the total, Combine adds one of them into another first.                 *)
(***************************************************************************)
\* the Stats whose counts add up to MaxCount at most
StatsSet ==
    {s \in [tokens : 0..MaxCount, lines : 0..MaxCount, bytes : 0..MaxCount] :
        s.tokens + s.lines + s.bytes <= MaxCount}

Without(q, k) == [n \in 1..(Len(q) - 1) |-> IF n < k THEN q[n] ELSE q[n + 1]]

AddInit ==
    /\ MainIdle /\ CountIdle
    /\ given \in SeqsUpTo(StatsSet, MaxItems)
    /\ items = <<TokenStats_new>> \o given
    /\ call = None

AddInto(j, k) ==
    LET r == TokenStats_add(items[j], items[k])
    IN /\ call' = Some([self_pre |-> items[j], other_pre |-> items[k],
                        self_post |-> r.self, other_post |-> r.other])
       /\ items' = Without([items EXCEPT ![j] = r.self], k)
       /\ UNCHANGED <<mainVars, countVars, given>>

Accumulate == \E k \in 2..Len(items) : AddInto(1, k)

Combine == \E j \in 2..Len(items), k \in 2..Len(items) : j # k /\ AddInto(j, k)

AddNext ==
    \/ Accumulate
    \/ Combine

SpecAdd == AddInit /\ [][AddNext]_vars

(***************************************************************************)
(* Reading the output back                                                 *)
(***************************************************************************)
\* the words of a line: its maximal runs of characters other than space
RECURSIVE WordsOf(_, _)
WordsOf(line, cur) ==
    IF line = <<>> THEN (IF cur = <<>> THEN <<>> ELSE <<cur>>)
    ELSE IF Head(line) = " "
         THEN (IF cur = <<>> THEN <<>> ELSE <<cur>>) \o WordsOf(Tail(line), <<>>)
         ELSE WordsOf(Tail(line), Append(cur, Head(line)))

Words(line) == WordsOf(line, <<>>)

IsNumber(w) == w # <<>> /\ \A k \in 1..Len(w) : \E d \in 1..10 : DigitChars[d] = w[k]

RECURSIVE NumberOf(_)
NumberOf(w) ==
    IF w = <<>> THEN 0
    ELSE 10 * NumberOf(SubSeq(w, 1, Len(w) - 1))
         + ((CHOOSE d \in 1..10 : DigitChars[d] = w[Len(w)]) - 1)

\* the leading numeric columns of a line and the label that follows them
Columns(line) ==
    LET w == Words(line)
        n == Cardinality({k \in 1..Len(w) : \A j \in 1..k : IsNumber(w[j])})
    IN [k \in 1..n |-> NumberOf(w[k])]

Label(line) ==
    LET w == Words(line)
        n == Len(Columns(line))
    IN Join([k \in 1..(Len(w) - n) |-> w[n + k]], <<" ">>)

\* the fields a display configuration selects, tokens then lines then bytes
Displayed(cfg, stats) ==
    LET all == <<[on |-> cfg.show_tokens, v |-> stats.tokens],
                 [on |-> cfg.show_lines, v |-> stats.lines],
                 [on |-> cfg.show_bytes, v |-> stats.bytes]>>
        sel == SelectSeq(all, LAMBDA f : f.on)
    IN [k \in 1..Len(sel) |-> sel[k].v]

StdoutLines == SelectSeq(io, LAMBDA e : e.op = "stdout")
Reads == SelectSeq(io, LAMBDA e : e.op = "read")

MultiMode == Len(args.files) >= 2
Resolved == tokenizer # None

\* the outcome of counting the k-th source of the command line
Outcome(k) == count_tokens_in_file(fs[args.files[k]], tokenizer[1])
Succeeded(n) == {k \in 1..n : Outcome(k).ok}

RECURSIVE SumOver(_, _)
SumOver(S, f) ==
    IF S = {} THEN 0
    ELSE LET k == CHOOSE x \in S : TRUE IN f[k] + SumOver(S \ {k}, f)

\* the field-wise sum of the Stats of the successful sources among the first n
SumOfSuccessful(n) ==
    LET ok == Succeeded(n)
    IN [tokens |-> SumOver(ok, [k \in ok |-> Outcome(k).val.tokens]),
        lines  |-> SumOver(ok, [k \in ok |-> Outcome(k).val.lines]),
        bytes  |-> SumOver(ok, [k \in ok |-> Outcome(k).val.bytes])]

(***************************************************************************)
(* C1.  In multi-file mode the running total after the first k sources is  *)
(* the field-wise sum of the Stats of the successful ones among those k,   *)
(* and the "total" line printed at the end shows the sum over all the      *)
(* successful sources; a failed source contributes nothing.                *)
(***************************************************************************)
C1_TotalIsSumOfSuccessful ==
    /\ pc = "loop" => total = SumOfSuccessful(idx - 1)
    /\ (pc = "done" /\ MultiMode /\ Resolved) =>
          /\ io # <<>>
          /\ io[Len(io)].op = "stdout"
          /\ Label(io[Len(io)].line) = <<"t", "o", "t", "a", "l">>
          /\ Columns(io[Len(io)].line)
                = Displayed(output_config[1], SumOfSuccessful(Len(args.files)))

C1_Witness ==
    /\ pc = "done" /\ MultiMode /\ Resolved
    /\ Len(args.files) = 3
    /\ Outcome(1).ok /\ ~Outcome(2).ok /\ Outcome(3).ok
    /\ ~args.tokens_only /\ ~args.lines /\ ~args.bytes
    /\ Columns(io[Len(io)].line) = <<6, 4, 6>>

(***************************************************************************)
(* C2.  In multi-file mode a failure never aborts the batch: the sources   *)
(* are attempted once each in the given order; each attempt is followed,   *)
(* before the next one, by exactly one output (a result line labeled with  *)
(* the source on stdout if it succeeded, a diagnostic naming the source on *)
(* stderr if it failed); one "total" line comes after the last source and  *)
(* nowhere else.                                                           *)
(***************************************************************************)
Mentions(line, name) ==
    \E k \in 1..(Len(line) - Len(name) + 1) : SubSeq(line, k, k + Len(name) - 1) = name

AttemptsInOrder(n) ==
    \A k \in 1..n :
        /\ io[2 * k - 1].op = "read"
        /\ io[2 * k - 1].src = args.files[k]
        /\ IF io[2 * k - 1].data.ok /\ count_stats(io[2 * k - 1].data.val, tokenizer[1]).ok
           THEN /\ io[2 * k].op = "stdout"
                /\ Label(io[2 * k].line) = args.files[k]
           ELSE /\ io[2 * k].op = "stderr"
                /\ Mentions(io[2 * k].line, args.files[k])

C2_BatchNeverAborts ==
    /\ pc = "loop" =>
          /\ Len(io) = 2 * (idx - 1)
          /\ AttemptsInOrder(idx - 1)
    /\ (pc = "done" /\ MultiMode /\ Resolved) =>
          /\ Len(io) = 2 * Len(args.files) + 1
          /\ AttemptsInOrder(Len(args.files))
          /\ io[Len(io)].op = "stdout"
          /\ Label(io[Len(io)].line) = <<"t", "o", "t", "a", "l">>

C2_Witness ==
    /\ pc = "done" /\ MultiMode /\ Resolved
    /\ Len(args.files) = 3
    /\ ~Outcome(1).ok /\ Outcome(2).ok /\ ~Outcome(3).ok
    /\ Len(StdoutLines) = 2

(***************************************************************************)
(* C3.  With no source (stdin) or exactly one source, a failure to read or *)
(* count aborts the run: the status is not 0 and nothing is printed on     *)
(* stdout.  On success exactly one result line is printed, without label   *)
(* for stdin and labeled with the source for the file, there is no "total" *)
(* line, and the status is 0.                                              *)
(***************************************************************************)
C3_SingleOrStdinAborts ==
    (pc = "done" /\ ~MultiMode /\ Resolved) =>
        /\ Len(Reads) = 1
        /\ LET rd == Reads[1]
               counted == IF rd.data.ok THEN count_stats(rd.data.val, tokenizer[1])
                          ELSE rd.data
           IN IF counted.ok
              THEN /\ exit_code = Some(0)
                   /\ Len(StdoutLines) = 1
                   /\ Label(StdoutLines[1].line)
                         = (IF args.files = <<>> THEN <<>> ELSE args.files[1])
                   /\ Columns(StdoutLines[1].line) = Displayed(output_config[1], counted.val)
              ELSE /\ exit_code # None /\ exit_code # Some(0)
                   /\ StdoutLines = <<>>

C3_Witness ==
    /\ pc = "done" /\ Resolved
    /\ Len(args.files) = 1
    /\ ~Outcome(1).ok
    /\ fs[args.files[1]].ok
    /\ exit_code = Some(1)

(***************************************************************************)
(* C4.  Tokenizer resolution and loading come before any input: when the   *)
(* explicit path is missing or invalid, the named tokenizer is not found,  *)
(* or the file found is invalid, the run ends with a status other than 0   *)
(* having read no source and printed no result or total line, whatever the *)
(* number of sources; and no source is read before a tokenizer is loaded.  *)
(***************************************************************************)
\* the file resolution has to load, from what exists: None when there is none
Wanted ==
    IF args.tokenizer_path # None THEN Some(args.tokenizer_path[1])
    ELSE LET hits == {k \in 1..Len(lookup.search_paths) :
                         lookup.search_paths[k] \in lookup.existing}
         IN IF hits = {} THEN None
            ELSE Some(lookup.search_paths[CHOOSE k \in hits : \A j \in hits : k <= j])

ResolutionFails ==
    /\ args.tokenizer_path # None \/ args.tokenizer_name # None
    /\ Wanted = None \/ Wanted[1] \notin lookup.valid

C4_ResolutionBeforeInput ==
    /\ (pc \notin {"start", "resolve"} /\ ResolutionFails) =>
          /\ pc = "done"
          /\ exit_code # None /\ exit_code # Some(0)
          /\ Reads = <<>>
          /\ StdoutLines = <<>>
    /\ (Reads # <<>> \/ StdoutLines # <<>>) => (Resolved /\ pc \notin {"start", "resolve"})

C4_Witness ==
    /\ pc = "done"
    /\ Len(args.files) = 3
    /\ args.tokenizer_name # None
    /\ lookup.found # None
    /\ lookup.found[1] \notin lookup.valid
    /\ exit_code = Some(1)

(***************************************************************************)
(* C5.  Resolution takes its source by fixed precedence.  An explicit path *)
(* is loaded from exactly that path.  Otherwise a name is looked up as     *)
(* <name>.json in the candidate directories in the order development,      *)
(* install share, user config, the two system share directories, and the   *)
(* first candidate that exists is returned, whatever the set of existing   *)
(* candidates.  Otherwise the embedded model is used and nothing is        *)
(* searched.                                                               *)
(***************************************************************************)
PriorityDirs ==
    <<ExeDir \o <<"/", "../../bin/assets/tokenizers">>,
      ExeDir \o <<"/", "../share/tc/tokenizers">>,
      HomeDir \o <<"/", ".config/tc/tokenizers">>,
      <<"/opt/homebrew/share/tc/tokenizers">>,
      <<"/usr/local/share/tc/tokenizers">>>>

\* q is p with some elements left out
RECURSIVE IsSubsequence(_, _)
IsSubsequence(q, p) ==
    IF q = <<>> THEN TRUE
    ELSE IF p = <<>> THEN FALSE
    ELSE IF Head(q) = Head(p) THEN IsSubsequence(Tail(q), Tail(p))
    ELSE IsSubsequence(q, Tail(p))

RECURSIVE SplitOn(_, _, _)
SplitOn(msg, sep, cur) ==
    IF msg = <<>> THEN <<cur>>
    ELSE IF Head(msg) = sep THEN <<cur>> \o SplitOn(Tail(msg), sep, <<>>)
    ELSE SplitOn(Tail(msg), sep, Append(cur, Head(msg)))

\* the paths listed after "Searched in:"
ListedPaths(msg, name) ==
    LET head == "' not found. Searched in:\n  "
        at == CHOOSE k \in 1..Len(msg) : msg[k] = head
        rest == SubSeq(msg, at + 1, Len(msg))
    IN SplitOn(rest, "\n  ", <<>>)

C6_NotFoundListsSearchedPaths ==
    (/\ pc \notin {"start", "resolve"}
     /\ args.tokenizer_name # None
     /\ \A k \in 1..Len(lookup.search_paths) : lookup.search_paths[k] \notin lookup.existing) =>
        /\ pc = "done"
        /\ exit_code = Some(1)
        /\ Len(io) = 1
        /\ io[1].op = "stderr"
        /\ \E k \in 1..Len(io[1].line) : io[1].line[k] = "' not found. Searched in:\n  "
        /\ ListedPaths(io[1].line, args.tokenizer_name[1]) = lookup.search_paths

C6_Witness ==
    /\ pc = "done"
    /\ args.tokenizer_name = Some(<<"gpt4">>)
    /\ lookup.found = None
    /\ Len(lookup.search_paths) = 3
    /\ Len(args.files) = 2
    /\ ListedPaths(io[1].line, args.tokenizer_name[1]) = lookup.search_paths

(***************************************************************************)
(* C7.  With --tokens-only every result line shows the token count alone,  *)
(* no lines field and no bytes field, whatever -l and -c are.              *)
(***************************************************************************)
C7_TokensOnlyShowsOnlyTokens ==
    args.tokens_only =>
        /\ output_config # None =>
              (output_config[1].show_tokens
               /\ ~output_config[1].show_lines /\ ~output_config[1].show_bytes)
        /\ \A k \in 1..Len(StdoutLines) : Len(Columns(StdoutLines[k].line)) = 1

(***************************************************************************)
(* C8.  For every combination of --tokens-only, -l and -c the display      *)
(* configuration shows at least one field; with no flag all three are      *)
(* shown; and a result line carries the enabled fields in the order        *)
(* tokens, lines, bytes.                                                   *)
(***************************************************************************)
C8_DisplayConfiguration ==
    output_config # None =>
        LET cfg == output_config[1]
        IN /\ cfg.show_tokens \/ cfg.show_lines \/ cfg.show_bytes
           /\ (~args.tokens_only /\ ~args.lines /\ ~args.bytes) =>
                 (cfg.show_tokens /\ cfg.show_lines /\ cfg.show_bytes)
           /\ \A k \in 2..Len(io) :
                 (io[k].op = "stdout" /\ io[k - 1].op = "read") =>
                     /\ Columns(io[k].line)
                           = Displayed(cfg, count_stats(io[k - 1].data.val, tokenizer[1]).val)
                     /\ Len(Columns(io[k].line)) >= 1
           /\ (pc = "done" /\ MultiMode /\ Resolved) =>
                 Columns(io[Len(io)].line) = Displayed(cfg, total)

C8_Witness ==
    /\ pc = "done" /\ Resolved
    /\ ~args.tokens_only /\ ~args.lines /\ ~args.bytes
    /\ args.files = <<>>
    /\ StdoutLines # <<>>
    /\ Columns(StdoutLines[1].line) = <<2, 1, 2>>

(***************************************************************************)
(* C9.  TokenStats::add is field-wise addition and leaves its argument     *)
(* unchanged; TokenStats::new() is its identity; and accumulating a        *)
(* sequence of Stats into a zero total gives the field-wise sum whatever   *)
(* the order and the grouping of the additions.                            *)
(***************************************************************************)
GivenSum ==
    LET D == 1..Len(given)
    IN [tokens |-> SumOver(D, [k \in D |-> given[k].tokens]),
        lines  |-> SumOver(D, [k \in D |-> given[k].lines]),
        bytes  |-> SumOver(D, [k \in D |-> given[k].bytes])]

C9_AddIsFieldWise ==
    /\ call # None =>
          LET c == call[1]
          IN /\ c.self_post.tokens = c.self_pre.tokens + c.other_pre.tokens
             /\ c.self_post.lines = c.self_pre.lines + c.other_pre.lines
             /\ c.self_post.bytes = c.self_pre.bytes + c.other_pre.bytes
             /\ c.other_post = c.other_pre
             /\ c.self_pre = [tokens |-> 0, lines |-> 0, bytes |-> 0] =>
                   c.self_post = c.other_pre
    /\ Len(items) = 1 => items[1] = GivenSum

C9_Witness ==
    /\ Len(given) = 3
    /\ Len(items) = 1
    /\ call # None
    /\ call[1].self_pre # [tokens |-> 0, lines |-> 0, bytes |-> 0]
    /\ call[1].other_pre.lines # call[1].other_pre.bytes
    /\ items[1] = [tokens |-> 1, lines |-> 1, bytes |-> 1]

(***************************************************************************)
(* C10.  count_stats reports as lines the number of newline-delimited      *)
(* segments, a trailing partial line counted and the empty segment after a *)
(* final newline not counted (the empty text has 0 lines and 0 bytes; n    *)
(* non-empty lines separated by newlines give n with and without a final   *)
(* newline), and as bytes the length of the text in bytes.                 *)
(***************************************************************************)
\* the segments between newlines: one more than there are newlines
Segments(s) == SplitOn(s, NL, <<>>)

DelimitedLines(s) ==
    LET segs == Segments(s)
    IN IF segs[Len(segs)] = <<>> THEN Len(segs) - 1 ELSE Len(segs)

ByteLength(s) == Len(s) + Cardinality({k \in 1..Len(s) : s[k] = "U+00E9"})

C10_LinesAndBytes ==
    (ret # None /\ ret[1].ok) =>
        /\ ret[1].val.lines = DelimitedLines(text)
        /\ ret[1].val.bytes = ByteLength(text)
        /\ text = <<>> => (ret[1].val.lines = 0 /\ ret[1].val.bytes = 0)
        /\ \A n \in 1..MaxTextLen :
              (\/ text = Join([k \in 1..n |-> <<"a">>], <<NL>>)
               \/ text = Join([k \in 1..n |-> <<"a">>], <<NL>>) \o <<NL>>) =>
                  ret[1].val.lines = n

C10_Witness ==
    /\ ret # None /\ ret[1].ok
    /\ text = <<"a", NL, "U+00E9", NL>>
    /\ ret[1].val.lines = 2
    /\ ret[1].val.bytes = 5

(***************************************************************************)
(* C11.  In multi-file mode, once a tokenizer is loaded, the run ends with *)
(* status 0 whatever sources fail, and never with another status; when     *)
(* every source fails the only line on stdout is the "total" line, and its *)
(* tokens, lines and bytes are 0.                                          *)
(***************************************************************************)
C11_MultiFileAlwaysExitsZero ==
    /\ (MultiMode /\ Resolved /\ exit_code # None) => exit_code = Some(0)
    /\ (MultiMode /\ Resolved /\ pc = "done") =>
          /\ exit_code = Some(0)
          /\ (\A k \in 1..Len(args.files) : ~Outcome(k).ok) =>
                /\ Len(StdoutLines) = 1
                /\ Label(StdoutLines[1].line) = <<"t", "o", "t", "a", "l">>
                /\ Columns(StdoutLines[1].line) # <<>>
                /\ \A c \in 1..Len(Columns(StdoutLines[1].line)) :
                      Columns(StdoutLines[1].line)[c] = 0
                /\ total = [tokens |-> 0, lines |-> 0, bytes |-> 0]

C11_Witness ==
    /\ MultiMode /\ Resolved /\ pc = "done"
    /\ Len(args.files) = 3
    /\ args.files[1] # args.files[2]
    /\ \A k \in 1..3 : ~Outcome(k).ok
    /\ ~args.tokens_only /\ ~args.lines /\ ~args.bytes
    /\ Len(StdoutLines) = 1
    /\ Columns(StdoutLines[1].line) = <<0, 0, 0>>
    /\ exit_code = Some(0)

====
